---- MODULE Spec2Model ----
(***************************************************************************)
(* State-machine model of the script-to-video front end:                   *)
(*   App              (src/App.jsx 8-53)      owns currentVideoPath        *)
(*   VideoGenerator   (src/unnamed/part_000)  generation form              *)
(*   VideoEditor      (src/VideoEditor.jsx)   edit-configuration builder   *)
(*   AzureIntegration (src/App.jsx 512-674)   cloud panel                  *)
(*                                                                         *)
(* JavaScript objects are modelled as sequences of <<key, value>> pairs in *)
(* insertion order (the order JSON.stringify writes them in); AsMap gives  *)
(* the unordered mapping an object denotes.  A fetch is modelled by the    *)
(* step that issues it (the code up to the first await) and by one step    *)
(* per way its response can be handled.                                    *)
(***************************************************************************)
EXTENDS Integers, Sequences, FiniteSets, TLC

VARIABLES
    currentVideoPath,  \* App: useState(null)
    editConfig,        \* VideoEditor: useState({})
    selectedPreset,    \* VideoEditor: useState('')
    isEditing,         \* VideoEditor: useState(false)
    presetFetches,     \* GET /api/editor/presets in flight: preset keys, oldest first
    editInFlight,      \* POST /api/editor/edit requests in flight
    script,            \* VideoGenerator: useState(''), a sequence of characters
    styles,            \* VideoGenerator: useState({}); the style keys held
    stylesInFlight,    \* GET /api/styles/list requests in flight
    isGenerating,      \* VideoGenerator: useState(false)
    generatedVideo,    \* VideoGenerator: useState(null); << >> or <<descriptor>>
    progress,          \* VideoGenerator: useState(0)
    timers,            \* progress intervals set and not cleared
    genInFlight,       \* POST /api/video/generate requests in flight
    beforeSubmit,      \* <<generatedVideo, progress, isGenerating>> as the last submit found them
    azureStatus,       \* AzureIntegration: useState(null); << >> or <<status>>
    uploadStatus,      \* AzureIntegration: useState(null); << >> or <<data>>
    streamingInfo,     \* AzureIntegration: useState(null); << >> or <<streaming>>
    videoAnalysis,     \* AzureIntegration: useState(null); << >> or <<analysis>>
    isUploading,       \* AzureIntegration: useState(false)
    isAnalyzing,       \* AzureIntegration: useState(false)
    statusInFlight,    \* GET /api/azure/status requests in flight
    uploadInFlight,    \* POST /api/azure/upload requests in flight
    streamFetches,     \* POST /api/azure/stream in flight: their video_url, oldest first
    analyzeFetches,    \* POST /api/azure/analyze in flight: their video_url
    workflowInFlight,  \* POST /api/azure/workflow requests in flight
    lastOp,            \* the handler step that produced this state
    lastArgs,          \* the arguments (or response data) of that step
    prevConfig,        \* editConfig as it was before that step
    alertMsg,          \* text window.alert showed in that step ("" = no alert)
    onSaveArgs,        \* arguments the onSave prop was invoked with in that step
    sent               \* requests that step issued: <<url, body>> pairs

appVars    == <<currentVideoPath>>
editorVars == <<editConfig, selectedPreset, isEditing, presetFetches, editInFlight>>
genVars    == <<script, styles, stylesInFlight, isGenerating, generatedVideo, progress, timers, genInFlight,
                beforeSubmit>>
cloudVars  == <<azureStatus, uploadStatus, streamingInfo, videoAnalysis, isUploading,
                isAnalyzing, statusInFlight, uploadInFlight, streamFetches,
                analyzeFetches, workflowInFlight>>
stepVars   == <<lastOp, lastArgs, prevConfig, alertMsg, onSaveArgs, sent>>

vars == <<appVars, editorVars, genVars, cloudVars, stepVars>>

----------------------------------------------------------------------------
(* Bounds *)

MaxFetches   == 2   \* preset fetches outstanding at once
MaxStreams   == 2   \* streaming-endpoint requests outstanding at once
MaxScriptLen == 2   \* characters in a script

----------------------------------------------------------------------------
(* JavaScript values held in the edit configuration *)

Num(n)  == [t |-> "num",  n |-> n, s |-> "", l |-> << >>]
NaN     == [t |-> "nan",  n |-> 0, s |-> "", l |-> << >>]
Str(s)  == [t |-> "str",  n |-> 0, s |-> s,  l |-> << >>]
List(l) == [t |-> "list", n |-> 0, s |-> "", l |-> l]
JsonNull == [t |-> "null", n |-> 0, s |-> "", l |-> << >>]

Null == "null"      \* the null video path / absent reference

\* {} : the empty object
EmptyObj == << >>

ObjKeys(obj) == {obj[i][1] : i \in DOMAIN obj}

ObjHas(obj, k) == \E i \in DOMAIN obj : obj[i][1] = k

ObjIndex(obj, k) == CHOOSE i \in DOMAIN obj : obj[i][1] = k

\* obj[k]; callers test ObjHas first (undefined otherwise)
ObjGet(obj, k) == obj[ObjIndex(obj, k)][2]

\* { ...obj, [k]: v } : an existing key keeps its position, a new one is
\* appended
ObjSet(obj, k, v) ==
    IF ObjHas(obj, k)
    THEN [obj EXCEPT ![ObjIndex(obj, k)] = <<k, v>>]
    ELSE Append(obj, <<k, v>>)

\* the mapping a flat object denotes
AsMap(obj) == [k \in ObjKeys(obj) |-> ObjGet(obj, k)]

\* the mapping an edit configuration (object of objects) denotes
AsMap2(cfg) == [c \in ObjKeys(cfg) |-> AsMap(ObjGet(cfg, c))]

----------------------------------------------------------------------------
(* JSON.stringify (src/VideoEditor.jsx 80-83) *)

\* a NaN number is written as null; every other value as it is
JsonValue(v) == IF v.t = "nan" THEN JsonNull ELSE v

\* members are written in insertion order
JsonObj(obj) == [i \in DOMAIN obj |-> <<obj[i][1], JsonValue(obj[i][2])>>]

JsonConfig(cfg) == [i \in DOMAIN cfg |-> <<cfg[i][1], JsonObj(cfg[i][2])>>]

\* mutant: the configuration is left out of the body
EditBodyWithoutConfig(videoPath, cfg) ==
    << <<"video_path", videoPath>>, <<"edit_config", EmptyObj>> >>

\* JSON.stringify({ video_path: videoPath, edit_config: editConfig })
EditBody(videoPath, cfg) ==
    << <<"video_path", videoPath>>, <<"edit_config", JsonConfig(cfg)>> >>

----------------------------------------------------------------------------
(* Inputs *)

\* parseFloat / parseInt of a text typed into a numeric input (e.target.value)
ParseNumber(text) ==
    CASE text = ""     -> NaN
      [] text = "-3"   -> Num(-3)
      [] text = "0"    -> Num(0)
      [] text = "10"   -> Num(10)
      [] text = "1920" -> Num(1920)
      [] text = "1080" -> Num(1080)

\* v || d : NaN and 0 are falsy
OrElse(v, d) == IF v.t = "nan" \/ (v.t = "num" /\ v.n = 0) THEN d ELSE v

\* what the server can answer
VideoPaths  == {"/videos/v1.mp4"}
EditedPaths == {"/videos/v1_edited.mp4"}
ErrorTexts  == {"Failed to fetch", "server error"}

\* the preset buttons followed (two of the four keys of presets)
PresetKeys == {"cinematic", "fast_paced"}

\* GET /api/editor/presets: data.presets[presetKey].config
PresetConfig(presetKey) ==
    IF presetKey = "cinematic"
    THEN << <<"resize", << <<"width", Num(1920)>>, <<"height", Num(1080)>> >> >> >>
    ELSE << <<"trim", << <<"end", Num(10)>> >> >> >>

----------------------------------------------------------------------------
(* One handler step: what it showed, called and sent *)

Step(op, args, alert, saves, reqs) ==
    /\ lastOp' = op
    /\ lastArgs' = args
    /\ prevConfig' = editConfig
    /\ alertMsg' = alert
    /\ onSaveArgs' = saves
    /\ sent' = reqs

----------------------------------------------------------------------------
(* App *)

\* mutant: a disabled button still fires a request
PressDisabledFetches(button) ==
    Step(button, << >>, "", << >>, << <<"/api/azure/upload", << >> >> >>)

\* a press of a disabled button runs no handler
PressDisabled(button) == Step(button, << >>, "", << >>, << >>)

\* mutant: the edited path is dropped
handleVideoEditedIgnored(editedVideoPath) == UNCHANGED currentVideoPath

\* const handleVideoEdited = (editedVideoPath) => setCurrentVideoPath(editedVideoPath)
handleVideoEdited(editedVideoPath) == currentVideoPath' = editedVideoPath

----------------------------------------------------------------------------
(* VideoEditor; its videoPath prop is App's currentVideoPath *)

\* mutant: the spread of prev is forgotten, { [section]: {...prev[section], [key]: value} }
updateEditConfigDropsCategories(prev, section, key, value) ==
    LET old == IF ObjHas(prev, section) THEN ObjGet(prev, section) ELSE EmptyObj
    IN  << <<section, ObjSet(old, key, value)>> >>

\* mutant: the spread of prev[section] is forgotten, {...prev, [section]: { [key]: value }}
updateEditConfigDropsKeys(prev, section, key, value) ==
    ObjSet(prev, section, << <<key, value>> >>)

\* mutant: section and key are taken for one another,
\* {...prev, [key]: {...prev[key], [section]: value}}
updateEditConfigSwapsNames(prev, section, key, value) ==
    LET old == IF ObjHas(prev, key) THEN ObjGet(prev, key) ELSE EmptyObj
    IN  ObjSet(prev, key, ObjSet(old, section, value))

\* setEditConfig(prev => ({...prev, [section]: {...prev[section], [key]: value}}))
updateEditConfig(prev, section, key, value) ==
    LET old == IF ObjHas(prev, section) THEN ObjGet(prev, section) ELSE EmptyObj
    IN  ObjSet(prev, section, ObjSet(old, key, value))

\* the onChange handlers of the numeric inputs: <<section, key, value>> passed
\* to updateEditConfig for a typed text
ControlInputs ==
    {<<"trim", "start", OrElse(ParseNumber(t), Num(0))>> : t \in {"", "-3", "0"}}
    \cup {<<"trim", "end", ParseNumber(t)>> : t \in {"", "10"}}
    \cup {<<"resize", "width", ParseNumber(t)>> : t \in {"1920"}}
    \cup {<<"resize", "height", ParseNumber(t)>> : t \in {"1080"}}

\* every control of the four tabs: the <<section, key, value>> its handler
\* passes to updateEditConfig, for one value of each slider, select and text
Controls ==
    ControlInputs
    \cup {<<"fade_in", "duration", Num(1)>>, <<"fade_out", "duration", Num(1)>>}
    \cup {<<"effects", "list", List(<<e>>)>> : e \in {"black_and_white", "speed_up", "slow_motion"}}
    \cup {<<"text_overlays", "text", Str("Hi")>>,
          <<"text_overlays", "fontsize", Num(50)>>,
          <<"text_overlays", "color", Str("white")>>,
          <<"text_overlays", "start", OrElse(ParseNumber(""), Num(0))>>,
          <<"text_overlays", "duration", OrElse(ParseNumber(""), Num(5))>>,
          <<"text_overlays", "position", Str("center")>>}
    \cup {<<"volume", "factor", Num(2)>>}

SetControl(section, key, value) ==
    /\ editConfig' = updateEditConfig(editConfig, section, key, value)
    /\ UNCHANGED <<appVars, selectedPreset, isEditing, presetFetches, editInFlight,
                   genVars, cloudVars>>
    /\ Step("set", <<section, key, value>>, "", << >>, << >>)

\* the three effect switches
Effects == {"black_and_white", "speed_up", "slow_motion"}

\* mutant: the switch adds its effect to the list,
\* updateEditConfig('effects', 'list', [...list, effect])
EffectSwitchAppends(effect, checked) ==
    LET had == IF ObjHas(editConfig, "effects") /\ ObjHas(ObjGet(editConfig, "effects"), "list")
               THEN ObjGet(ObjGet(editConfig, "effects"), "list").l
               ELSE << >>
    IN  /\ editConfig' = IF checked
                         THEN updateEditConfig(editConfig, "effects", "list",
                                               List(Append(had, effect)))
                         ELSE editConfig
        /\ UNCHANGED <<appVars, selectedPreset, isEditing, presetFetches, editInFlight,
                       genVars, cloudVars>>
        /\ Step("effectSwitch", <<effect, checked>>, "", << >>, << >>)

\* onCheckedChange={(checked) => { if (checked) updateEditConfig('effects',
\* 'list', [effect]) }}; checked is true when the switch is turned on
EffectSwitch(effect, checked) ==
    /\ editConfig' = IF checked
                     THEN updateEditConfig(editConfig, "effects", "list", List(<<effect>>))
                     ELSE editConfig
    /\ UNCHANGED <<appVars, selectedPreset, isEditing, presetFetches, editInFlight,
                   genVars, cloudVars>>
    /\ Step("effectSwitch", <<effect, checked>>, "", << >>, << >>)

\* mutant: Reset also forgets the preset, setEditConfig({}); setSelectedPreset('')
ResetClearsPreset ==
    /\ editConfig' = EmptyObj
    /\ selectedPreset' = ""
    /\ UNCHANGED <<appVars, isEditing, presetFetches, editInFlight, genVars, cloudVars>>
    /\ Step("reset", << >>, "", << >>, << >>)

\* mutant: the Reset button has no handler
ResetInert ==
    /\ UNCHANGED <<appVars, editorVars, genVars, cloudVars>>
    /\ Step("reset", << >>, "", << >>, << >>)

\* Reset button: setEditConfig({})
Reset ==
    /\ editConfig' = EmptyObj
    /\ UNCHANGED <<appVars, selectedPreset, isEditing, presetFetches, editInFlight,
                   genVars, cloudVars>>
    /\ Step("reset", << >>, "", << >>, << >>)

\* mutant: Undo takes back the last edit, setEditConfig(previous)
UndoRestoresPrevious ==
    /\ editConfig' = prevConfig
    /\ UNCHANGED <<appVars, selectedPreset, isEditing, presetFetches, editInFlight,
                   genVars, cloudVars>>
    /\ Step("undo", << >>, "", << >>, << >>)

\* Undo button: no onClick
Undo ==
    /\ UNCHANGED <<appVars, editorVars, genVars, cloudVars>>
    /\ Step("undo", << >>, "", << >>, << >>)

\* Redo button: no onClick
Redo ==
    /\ UNCHANGED <<appVars, editorVars, genVars, cloudVars>>
    /\ Step("redo", << >>, "", << >>, << >>)

RemoveAt(seq, i) == [j \in 1..(Len(seq) - 1) |-> IF j < i THEN seq[j] ELSE seq[j + 1]]

\* { ...a, ...b }
ObjSpread(a, b) ==
    LET RECURSIVE Go(_, _)
        Go(acc, j) == IF j > Len(b) THEN acc ELSE Go(ObjSet(acc, b[j][1], b[j][2]), j + 1)
    IN  Go(a, 1)

\* applyPreset up to its first await: the fetch is issued
ApplyPreset(presetKey) ==
    /\ Len(presetFetches) < MaxFetches
    /\ presetFetches' = Append(presetFetches, presetKey)
    /\ UNCHANGED <<appVars, editConfig, selectedPreset, isEditing, editInFlight,
                   genVars, cloudVars>>
    /\ Step("applyPreset", <<presetKey>>, "", << >>, << <<"/api/editor/presets", << >> >> >>)

\* mutant: the preset is merged into the local edits,
\* setEditConfig(prev => ({...prev, ...preset.config}))
ApplyPresetFoundMerges(i) ==
    /\ i \in DOMAIN presetFetches
    /\ editConfig' = ObjSpread(editConfig, PresetConfig(presetFetches[i]))
    /\ selectedPreset' = presetFetches[i]
    /\ presetFetches' = RemoveAt(presetFetches, i)
    /\ UNCHANGED <<appVars, isEditing, editInFlight, genVars, cloudVars>>
    /\ Step("applyPresetFound", <<presetFetches[i], i>>, "", << >>, << >>)

\* the response of fetch i holds the preset: setEditConfig(preset.config),
\* setSelectedPreset(presetKey)
ApplyPresetFound(i) ==
    /\ i \in DOMAIN presetFetches
    /\ editConfig' = PresetConfig(presetFetches[i])
    /\ selectedPreset' = presetFetches[i]
    /\ presetFetches' = RemoveAt(presetFetches, i)
    /\ UNCHANGED <<appVars, isEditing, editInFlight, genVars, cloudVars>>
    /\ Step("applyPresetFound", <<presetFetches[i], i>>, "", << >>, << >>)

\* fetch i or the parse of its body threw, or the body has no presets
\* (caught, console.error): nothing is set
ApplyPresetFail(i) ==
    /\ i \in DOMAIN presetFetches
    /\ presetFetches' = RemoveAt(presetFetches, i)
    /\ UNCHANGED <<appVars, editConfig, selectedPreset, isEditing, editInFlight,
                   genVars, cloudVars>>
    /\ Step("applyPresetFail", <<presetFetches[i]>>, "", << >>, << >>)

\* the response of fetch i has no entry for the key (if (preset) is false):
\* nothing is set
ApplyPresetNone(i) ==
    /\ i \in DOMAIN presetFetches
    /\ presetFetches' = RemoveAt(presetFetches, i)
    /\ UNCHANGED <<appVars, editConfig, selectedPreset, isEditing, editInFlight,
                   genVars, cloudVars>>
    /\ Step("applyPresetNone", <<presetFetches[i]>>, "", << >>, << >>)

\* saveEdits up to its first await: the early return without a video, or
\* setIsEditing(true) and the POST
saveEdits ==
    IF currentVideoPath = Null
    THEN /\ UNCHANGED <<appVars, editorVars, genVars, cloudVars>>
         /\ Step("saveEditsNoVideo", << >>, "No video selected for editing", << >>, << >>)
    ELSE /\ isEditing' = TRUE
         /\ editInFlight' = editInFlight + 1
         /\ UNCHANGED <<appVars, editConfig, selectedPreset, presetFetches, genVars, cloudVars>>
         /\ Step("saveEdits", << >>, "", << >>,
                 << <<"/api/editor/edit", EditBody(currentVideoPath, editConfig)>> >>)


\* <Button onClick={saveEdits} disabled={isEditing || !videoPath}>
ApplyEditsButton ==
    IF isEditing \/ currentVideoPath = Null
    THEN PressDisabled("applyEditsDisabled") /\ UNCHANGED <<appVars, editorVars, genVars, cloudVars>>
    ELSE saveEdits

\* mutant: the configuration is cleared once it has been applied, setEditConfig({})
SaveEditsOkClearsConfig(edited_path) ==
    /\ editInFlight > 0
    /\ editInFlight' = editInFlight - 1
    /\ handleVideoEdited(edited_path)
    /\ isEditing' = FALSE
    /\ editConfig' = EmptyObj
    /\ UNCHANGED <<selectedPreset, presetFetches, genVars, cloudVars>>
    /\ Step("saveEditsOk", <<edited_path>>, "Video edited successfully!", <<edited_path>>, << >>)

\* response.ok: onSave?.(data.edited_path), alert, finally setIsEditing(false)
SaveEditsOk(edited_path) ==
    /\ editInFlight > 0
    /\ editInFlight' = editInFlight - 1
    /\ handleVideoEdited(edited_path)
    /\ isEditing' = FALSE
    /\ UNCHANGED <<editConfig, selectedPreset, presetFetches, genVars, cloudVars>>
    /\ Step("saveEditsOk", <<edited_path>>, "Video edited successfully!", <<edited_path>>, << >>)

\* mutant: setIsEditing(false) sits at the end of the try block, not in finally
SaveEditsFailStaysBusy(message) ==
    /\ editInFlight > 0
    /\ editInFlight' = editInFlight - 1
    /\ UNCHANGED <<appVars, editConfig, selectedPreset, presetFetches, isEditing,
                   genVars, cloudVars>>
    /\ Step("saveEditsFail", <<message>>, "Error editing video: " \o message, << >>, << >>)

\* a non-OK response (data.error || 'Failed to edit video') or a thrown fetch
\* or parse: alert, finally setIsEditing(false)
SaveEditsFail(message) ==
    /\ editInFlight > 0
    /\ editInFlight' = editInFlight - 1
    /\ isEditing' = FALSE
    /\ UNCHANGED <<appVars, editConfig, selectedPreset, presetFetches, genVars, cloudVars>>
    /\ Step("saveEditsFail", <<message>>, "Error editing video: " \o message, << >>, << >>)

----------------------------------------------------------------------------
(* VideoGenerator; declared as () => {...}: it reads no props, so the        *)
(* onVideoGenerated prop App passes (handleVideoGenerated) is never invoked  *)

\* characters a script is typed from
ScriptChars == {" ", "a"}

Scripts == UNION {[1..n -> ScriptChars] : n \in 0..MaxScriptLen}

RECURSIVE TrimStart(_)
TrimStart(s) == IF s # << >> /\ Head(s) = " " THEN TrimStart(Tail(s)) ELSE s

RECURSIVE TrimEnd(_)
TrimEnd(s) ==
    IF s # << >> /\ s[Len(s)] = " " THEN TrimEnd(SubSeq(s, 1, Len(s) - 1)) ELSE s

\* mutant: script.trim() is forgotten, !script
TrimForgotten(s) == s

\* String.prototype.trim, as in !script.trim()
Trim(s) == TrimEnd(TrimStart(s))

\* Math.random() * 10, in whole units
RandomSteps == {3, 9}

\* POST /api/video/generate answers: the descriptor of the generated video
Descriptors ==
    {[video_id |-> "id-1", status |-> "completed", video_path |-> p] : p \in VideoPaths}

\* const handleVideoGenerated = (videoData) => setCurrentVideoPath(videoData.video_path)
handleVideoGenerated(videoData) == currentVideoPath' = videoData.video_path

\* GET /api/styles/list answers: data.styles, or nothing under that name
StyleLists == {{"real", "cartoon"}, {}}

\* the response of the styles fetch issued on mount: setStyles(data.styles || {})
StylesOk(data) ==
    /\ stylesInFlight > 0
    /\ stylesInFlight' = stylesInFlight - 1
    /\ styles' = data
    /\ UNCHANGED <<appVars, script, isGenerating, generatedVideo, progress, timers,
                   genInFlight, beforeSubmit, editorVars, cloudVars>>
    /\ Step("stylesOk", <<data>>, "", << >>, << >>)

\* the styles fetch or the parse of its body threw (caught, console.error)
StylesFail ==
    /\ stylesInFlight > 0
    /\ stylesInFlight' = stylesInFlight - 1
    /\ UNCHANGED <<appVars, script, styles, isGenerating, generatedVideo, progress, timers,
                   genInFlight, beforeSubmit, editorVars, cloudVars>>
    /\ Step("stylesFail", << >>, "", << >>, << >>)

\* onChange={(e) => setScript(e.target.value)}
SetScript(text) ==
    /\ script' = text
    /\ UNCHANGED <<appVars, styles, stylesInFlight, isGenerating, generatedVideo, progress,
                   timers, genInFlight, beforeSubmit, editorVars, cloudVars>>
    /\ Step("setScript", <<text>>, "", << >>, << >>)

\* JSON.stringify({ script, style: selectedStyle, duration: duration[0],
\*                  aspect_ratio: aspectRatio }), the selects at their defaults
GenerateBody(text) ==
    << <<"script", text>>, <<"style", "real">>, <<"duration", 5>>,
       <<"aspect_ratio", "landscape">> >>

\* generateVideo up to its first await: the early return on a blank script, or
\* setIsGenerating(true), setProgress(0), setInterval and the POST
generateVideo ==
    IF Trim(script) = << >>
    THEN /\ UNCHANGED <<appVars, genVars, editorVars, cloudVars>>
         /\ Step("generateNoScript", << >>, "Please enter a script", << >>, << >>)
    ELSE /\ isGenerating' = TRUE
         /\ progress' = 0
         /\ timers' = timers + 1
         /\ genInFlight' = genInFlight + 1
         /\ beforeSubmit' = <<generatedVideo, progress, isGenerating>>
         /\ UNCHANGED <<appVars, script, styles, stylesInFlight, generatedVideo,
                        editorVars, cloudVars>>
         /\ Step("generateVideo", << >>, "", << >>,
                 << <<"/api/video/generate", GenerateBody(script)>> >>)

\* <Button onClick={generateVideo} disabled={isGenerating || !script.trim()}>
GenerateButton ==
    IF isGenerating \/ Trim(script) = << >>
    THEN /\ PressDisabled("generateDisabled")
         /\ UNCHANGED <<appVars, genVars, editorVars, cloudVars>>
    ELSE generateVideo

\* mutant: the interval callback has no cap, setProgress(prev => prev + Math.random() * 10)
ProgressTickUncapped(r) ==
    /\ timers > 0
    /\ progress' = progress + r
    /\ UNCHANGED <<appVars, script, styles, stylesInFlight, isGenerating, generatedVideo,
                   timers, genInFlight, beforeSubmit, editorVars, cloudVars>>
    /\ Step("progressTick", <<r>>, "", << >>, << >>)

\* one run of the interval callback: setProgress(prev => ...)
ProgressTick(r) ==
    /\ timers > 0
    /\ IF progress >= 90
       THEN /\ timers' = timers - 1
            /\ progress' = 90
       ELSE /\ progress' = progress + r
            /\ UNCHANGED timers
    /\ UNCHANGED <<appVars, script, styles, stylesInFlight, isGenerating, generatedVideo,
                   genInFlight, beforeSubmit, editorVars, cloudVars>>
    /\ Step("progressTick", <<r>>, "", << >>, << >>)

\* mutant: setProgress(100) is forgotten
GenerateOkKeepsProgress(data) ==
    /\ genInFlight > 0
    /\ genInFlight' = genInFlight - 1
    /\ generatedVideo' = <<data>>
    /\ timers' = 0
    /\ isGenerating' = FALSE
    /\ UNCHANGED <<appVars, script, styles, stylesInFlight, progress, beforeSubmit,
                   editorVars, cloudVars>>
    /\ Step("generateOk", <<data>>, "", << >>, << >>)

\* response.ok: setGeneratedVideo(data), setProgress(100); finally
\* clearInterval(progressInterval), setIsGenerating(false)
GenerateOk(data) ==
    /\ genInFlight > 0
    /\ genInFlight' = genInFlight - 1
    /\ generatedVideo' = <<data>>
    /\ progress' = 100
    /\ timers' = 0
    /\ isGenerating' = FALSE
    /\ UNCHANGED <<appVars, script, styles, stylesInFlight, beforeSubmit,
                   editorVars, cloudVars>>
    /\ Step("generateOk", <<data>>, "", << >>, << >>)

\* mutant: clearInterval(progressInterval) is missing from finally
GenerateFailLeavesTimer(message) ==
    /\ genInFlight > 0
    /\ genInFlight' = genInFlight - 1
    /\ isGenerating' = FALSE
    /\ UNCHANGED <<appVars, script, styles, stylesInFlight, generatedVideo, progress,
                   timers, beforeSubmit, editorVars, cloudVars>>
    /\ Step("generateFail", <<message>>, "Error generating video: " \o message, << >>, << >>)

\* a non-OK response (data.error || 'Failed to generate video') or a thrown
\* fetch or parse: alert; finally clearInterval, setIsGenerating(false)
GenerateFail(message) ==
    /\ genInFlight > 0
    /\ genInFlight' = genInFlight - 1
    /\ timers' = 0
    /\ isGenerating' = FALSE
    /\ UNCHANGED <<appVars, script, styles, stylesInFlight, generatedVideo, progress,
                   beforeSubmit, editorVars, cloudVars>>
    /\ Step("generateFail", <<message>>, "Error generating video: " \o message, << >>, << >>)

----------------------------------------------------------------------------
(* AzureIntegration; its videoPath prop is App's currentVideoPath *)

BlobUrls == {"https://blob/a", "https://blob/b"}

\* GET /api/azure/status answers
AzureStatuses == {[configured |-> TRUE], [configured |-> FALSE]}

\* azureStatus?.configured
Configured == azureStatus # << >> /\ azureStatus[1].configured

\* uploadStatus?.blob_url
HasBlobUrl == uploadStatus # << >>

\* the streaming endpoints / the insights the server derives for a video_url
StreamingOf(videoUrl) == [video_url |-> videoUrl]
AnalysisOf(videoUrl)  == [video_url |-> videoUrl]

\* the response of the status check issued on mount: setAzureStatus(data)
StatusOk(data) ==
    /\ statusInFlight > 0
    /\ statusInFlight' = statusInFlight - 1
    /\ azureStatus' = <<data>>
    /\ UNCHANGED <<appVars, uploadStatus, streamingInfo, videoAnalysis, isUploading,
                   isAnalyzing, uploadInFlight, streamFetches, analyzeFetches,
                   workflowInFlight, editorVars, genVars>>
    /\ Step("statusOk", <<data>>, "", << >>, << >>)

\* the status check threw (caught, console.error)
StatusFail ==
    /\ statusInFlight > 0
    /\ statusInFlight' = statusInFlight - 1
    /\ UNCHANGED <<appVars, azureStatus, uploadStatus, streamingInfo, videoAnalysis,
                   isUploading, isAnalyzing, uploadInFlight, streamFetches,
                   analyzeFetches, workflowInFlight, editorVars, genVars>>
    /\ Step("statusFail", << >>, "", << >>, << >>)

\* uploadToAzure up to its first await
uploadToAzure ==
    IF currentVideoPath = Null
    THEN /\ UNCHANGED <<appVars, cloudVars, editorVars, genVars>>
         /\ Step("uploadNoVideo", << >>, "No video selected for upload", << >>, << >>)
    ELSE /\ isUploading' = TRUE
         /\ uploadInFlight' = uploadInFlight + 1
         /\ UNCHANGED <<appVars, azureStatus, uploadStatus, streamingInfo, videoAnalysis,
                        isAnalyzing, statusInFlight, streamFetches, analyzeFetches,
                        workflowInFlight, editorVars, genVars>>
         /\ Step("uploadToAzure", << >>, "", << >>,
                 << <<"/api/azure/upload",
                      << <<"video_path", currentVideoPath>>,
                         <<"container_name", "generated-videos">> >> >> >>)

\* mutant: disabled={!videoPath || !azureStatus?.configured}
UploadButtonIgnoresBusy ==
    IF currentVideoPath = Null \/ ~Configured
    THEN /\ PressDisabled("uploadDisabled")
         /\ UNCHANGED <<appVars, cloudVars, editorVars, genVars>>
    ELSE Len(streamFetches) < MaxStreams /\ uploadToAzure

\* <Button onClick={uploadToAzure}
\*         disabled={isUploading || !videoPath || !azureStatus?.configured}>
UploadButton ==
    IF isUploading \/ currentVideoPath = Null \/ ~Configured
    THEN /\ PressDisabled("uploadDisabled")
         /\ UNCHANGED <<appVars, cloudVars, editorVars, genVars>>
    ELSE Len(streamFetches) < MaxStreams /\ uploadToAzure

\* mutant: the streaming endpoints are asked for the blob the state holds,
\* createStreamingEndpoints(uploadStatus?.blob_url)
UploadOkStreamsHeldBlob(data) ==
    LET held == IF HasBlobUrl THEN uploadStatus[1].blob_url ELSE Null
    IN  /\ uploadInFlight > 0
        /\ uploadInFlight' = uploadInFlight - 1
        /\ uploadStatus' = <<data>>
        /\ streamFetches' = Append(streamFetches, held)
        /\ isUploading' = FALSE
        /\ UNCHANGED <<appVars, azureStatus, streamingInfo, videoAnalysis, isAnalyzing,
                       statusInFlight, analyzeFetches, workflowInFlight, editorVars, genVars>>
        /\ Step("uploadOk", <<data>>, "", << >>,
                << <<"/api/azure/stream", << <<"video_url", held>> >> >> >>)

\* response.ok: setUploadStatus(data), createStreamingEndpoints(data.blob_url)
\* up to its first await; finally setIsUploading(false)
UploadOk(data) ==
    /\ uploadInFlight > 0
    /\ uploadInFlight' = uploadInFlight - 1
    /\ uploadStatus' = <<data>>
    /\ streamFetches' = Append(streamFetches, data.blob_url)
    /\ isUploading' = FALSE
    /\ UNCHANGED <<appVars, azureStatus, streamingInfo, videoAnalysis, isAnalyzing,
                   statusInFlight, analyzeFetches, workflowInFlight, editorVars, genVars>>
    /\ Step("uploadOk", <<data>>, "", << >>,
            << <<"/api/azure/stream", << <<"video_url", data.blob_url>> >> >> >>)

\* mutant: the upload state is cleared when the upload fails
UploadFailClears(message) ==
    /\ uploadInFlight > 0
    /\ uploadInFlight' = uploadInFlight - 1
    /\ isUploading' = FALSE
    /\ uploadStatus' = << >>
    /\ streamingInfo' = << >>
    /\ UNCHANGED <<appVars, azureStatus, videoAnalysis, isAnalyzing,
                   statusInFlight, streamFetches, analyzeFetches, workflowInFlight,
                   editorVars, genVars>>
    /\ Step("uploadFail", <<message>>, "Error uploading to Azure: " \o message, << >>, << >>)

\* a non-OK response (data.error || 'Failed to upload to Azure') or a thrown
\* fetch or parse: alert; finally setIsUploading(false)
UploadFail(message) ==
    /\ uploadInFlight > 0
    /\ uploadInFlight' = uploadInFlight - 1
    /\ isUploading' = FALSE
    /\ UNCHANGED <<appVars, azureStatus, uploadStatus, streamingInfo, videoAnalysis,
                   isAnalyzing, statusInFlight, streamFetches, analyzeFetches,
                   workflowInFlight, editorVars, genVars>>
    /\ Step("uploadFail", <<message>>, "Error uploading to Azure: " \o message, << >>, << >>)

\* createStreamingEndpoints, response i is OK: setStreamingInfo(data.streaming)
StreamOk(i) ==
    /\ i \in DOMAIN streamFetches
    /\ streamingInfo' = <<StreamingOf(streamFetches[i])>>
    /\ streamFetches' = RemoveAt(streamFetches, i)
    /\ UNCHANGED <<appVars, azureStatus, uploadStatus, videoAnalysis, isUploading,
                   isAnalyzing, statusInFlight, uploadInFlight, analyzeFetches,
                   workflowInFlight, editorVars, genVars>>
    /\ Step("streamOk", <<streamFetches[i]>>, "", << >>, << >>)

\* mutant: a failed streaming request rolls the upload back, setUploadStatus(null)
StreamFailRollsBack(i) ==
    /\ i \in DOMAIN streamFetches
    /\ streamFetches' = RemoveAt(streamFetches, i)
    /\ uploadStatus' = << >>
    /\ UNCHANGED <<appVars, azureStatus, streamingInfo, videoAnalysis,
                   isUploading, isAnalyzing, statusInFlight, uploadInFlight,
                   analyzeFetches, workflowInFlight, editorVars, genVars>>
    /\ Step("streamFail", <<streamFetches[i]>>, "", << >>, << >>)

\* createStreamingEndpoints, response i is not OK (nothing is done) or the
\* fetch or parse threw (caught, console.error)
StreamFail(i) ==
    /\ i \in DOMAIN streamFetches
    /\ streamFetches' = RemoveAt(streamFetches, i)
    /\ UNCHANGED <<appVars, azureStatus, uploadStatus, streamingInfo, videoAnalysis,
                   isUploading, isAnalyzing, statusInFlight, uploadInFlight,
                   analyzeFetches, workflowInFlight, editorVars, genVars>>
    /\ Step("streamFail", <<streamFetches[i]>>, "", << >>, << >>)

\* analyzeVideo up to its first await
analyzeVideo ==
    IF ~HasBlobUrl
    THEN /\ UNCHANGED <<appVars, cloudVars, editorVars, genVars>>
         /\ Step("analyzeNoUpload", << >>, "Please upload video to Azure first", << >>, << >>)
    ELSE /\ isAnalyzing' = TRUE
         /\ analyzeFetches' = Append(analyzeFetches, uploadStatus[1].blob_url)
         /\ UNCHANGED <<appVars, azureStatus, uploadStatus, streamingInfo, videoAnalysis,
                        isUploading, statusInFlight, uploadInFlight, streamFetches,
                        workflowInFlight, editorVars, genVars>>
         /\ Step("analyzeVideo", << >>, "", << >>,
                 << <<"/api/azure/analyze",
                      << <<"video_url", uploadStatus[1].blob_url>> >> >> >>)

\* mutant: disabled={!uploadStatus?.blob_url}
AnalyzeButtonIgnoresBusy ==
    IF ~HasBlobUrl
    THEN /\ PressDisabled("analyzeDisabled")
         /\ UNCHANGED <<appVars, cloudVars, editorVars, genVars>>
    ELSE analyzeVideo

\* <Button onClick={analyzeVideo} disabled={isAnalyzing || !uploadStatus?.blob_url}>
AnalyzeButton ==
    IF isAnalyzing \/ ~HasBlobUrl
    THEN /\ PressDisabled("analyzeDisabled")
         /\ UNCHANGED <<appVars, cloudVars, editorVars, genVars>>
    ELSE analyzeVideo

\* response.ok: setVideoAnalysis(data.analysis); finally setIsAnalyzing(false)
AnalyzeOk ==
    /\ analyzeFetches # << >>
    /\ videoAnalysis' = <<AnalysisOf(Head(analyzeFetches))>>
    /\ analyzeFetches' = Tail(analyzeFetches)
    /\ isAnalyzing' = FALSE
    /\ UNCHANGED <<appVars, azureStatus, uploadStatus, streamingInfo, isUploading,
                   statusInFlight, uploadInFlight, streamFetches, workflowInFlight,
                   editorVars, genVars>>
    /\ Step("analyzeOk", <<Head(analyzeFetches)>>, "", << >>, << >>)

\* a non-OK response (data.error || 'Failed to analyze video') or a thrown
\* fetch or parse: alert; finally setIsAnalyzing(false)
AnalyzeFail(message) ==
    /\ analyzeFetches # << >>
    /\ analyzeFetches' = Tail(analyzeFetches)
    /\ isAnalyzing' = FALSE
    /\ UNCHANGED <<appVars, azureStatus, uploadStatus, streamingInfo, videoAnalysis,
                   isUploading, statusInFlight, uploadInFlight, streamFetches,
                   workflowInFlight, editorVars, genVars>>
    /\ Step("analyzeFail", <<message>>, "Error analyzing video: " \o message, << >>, << >>)

\* runCompleteWorkflow up to its first await
runCompleteWorkflow ==
    IF currentVideoPath = Null
    THEN /\ UNCHANGED <<appVars, cloudVars, editorVars, genVars>>
         /\ Step("workflowNoVideo", << >>, "No video selected", << >>, << >>)
    ELSE /\ isUploading' = TRUE
         /\ workflowInFlight' = workflowInFlight + 1
         /\ UNCHANGED <<appVars, azureStatus, uploadStatus, streamingInfo, videoAnalysis,
                        isAnalyzing, statusInFlight, uploadInFlight, streamFetches,
                        analyzeFetches, editorVars, genVars>>
         /\ Step("runCompleteWorkflow", << >>, "", << >>,
                 << <<"/api/azure/workflow", << <<"video_path", currentVideoPath>> >> >> >>)

\* mutant: disabled={isUploading || !videoPath}
WorkflowButtonIgnoresStatus ==
    IF isUploading \/ currentVideoPath = Null
    THEN /\ PressDisabled("workflowDisabled")
         /\ UNCHANGED <<appVars, cloudVars, editorVars, genVars>>
    ELSE runCompleteWorkflow

\* <Button onClick={runCompleteWorkflow}
\*         disabled={isUploading || !videoPath || !azureStatus?.configured}>
WorkflowButton ==
    IF isUploading \/ currentVideoPath = Null \/ ~Configured
    THEN /\ PressDisabled("workflowDisabled")
         /\ UNCHANGED <<appVars, cloudVars, editorVars, genVars>>
    ELSE runCompleteWorkflow

\* POST /api/azure/workflow answers: which of the three parts report
\* status 'success', for the blob the server uploaded to
Workflows ==
    [blob_url : BlobUrls, upload : BOOLEAN, streaming : BOOLEAN, analysis : BOOLEAN]

\* response.ok: each part that reports success is stored; finally
\* setIsUploading(false)
WorkflowOk(workflow) ==
    /\ workflowInFlight > 0
    /\ workflowInFlight' = workflowInFlight - 1
    /\ uploadStatus' = IF workflow.upload
                       THEN <<[blob_url |-> workflow.blob_url, status |-> "uploaded"]>>
                       ELSE uploadStatus
    /\ streamingInfo' = IF workflow.streaming
                        THEN <<StreamingOf(workflow.blob_url)>>
                        ELSE streamingInfo
    /\ videoAnalysis' = IF workflow.analysis
                        THEN <<AnalysisOf(workflow.blob_url)>>
                        ELSE videoAnalysis
    /\ isUploading' = FALSE
    /\ UNCHANGED <<appVars, azureStatus, isAnalyzing, statusInFlight, uploadInFlight,
                   streamFetches, analyzeFetches, editorVars, genVars>>
    /\ Step("workflowOk", <<workflow>>, "", << >>, << >>)

\* mutant: setIsUploading(false) sits at the end of the try block, not in finally
WorkflowFailStaysBusy(message) ==
    /\ workflowInFlight > 0
    /\ workflowInFlight' = workflowInFlight - 1
    /\ UNCHANGED <<appVars, azureStatus, uploadStatus, streamingInfo, videoAnalysis,
                   isUploading, isAnalyzing, statusInFlight, uploadInFlight, streamFetches,
                   analyzeFetches, editorVars, genVars>>
    /\ Step("workflowFail", <<message>>, "Error running workflow: " \o message, << >>, << >>)

\* a non-OK response (data.error || 'Workflow failed') or a thrown fetch or
\* parse: alert; finally setIsUploading(false)
WorkflowFail(message) ==
    /\ workflowInFlight > 0
    /\ workflowInFlight' = workflowInFlight - 1
    /\ isUploading' = FALSE
    /\ UNCHANGED <<appVars, azureStatus, uploadStatus, streamingInfo, videoAnalysis,
                   isAnalyzing, statusInFlight, uploadInFlight, streamFetches,
                   analyzeFetches, editorVars, genVars>>
    /\ Step("workflowFail", <<message>>, "Error running workflow: " \o message, << >>, << >>)

----------------------------------------------------------------------------
(* Initial states and specifications *)

InitEditorPanel ==
    /\ editConfig = EmptyObj
    /\ selectedPreset = ""
    /\ isEditing = FALSE
    /\ presetFetches = << >>
    /\ editInFlight = 0

\* mounting VideoGenerator: useEffect issues fetchStyles
InitGeneratorPanel ==
    /\ script = << >>
    /\ styles = {}
    /\ stylesInFlight = 1
    /\ isGenerating = FALSE
    /\ generatedVideo = << >>
    /\ progress = 0
    /\ timers = 0
    /\ genInFlight = 0
    /\ beforeSubmit = << >>

\* mounting AzureIntegration: useEffect issues checkAzureStatus
InitCloudPanel ==
    /\ azureStatus = << >>
    /\ uploadStatus = << >>
    /\ streamingInfo = << >>
    /\ videoAnalysis = << >>
    /\ isUploading = FALSE
    /\ isAnalyzing = FALSE
    /\ statusInFlight = 1
    /\ uploadInFlight = 0
    /\ streamFetches = << >>
    /\ analyzeFetches = << >>
    /\ workflowInFlight = 0

InitStep ==
    /\ lastOp = "mount"
    /\ lastArgs = << >>
    /\ prevConfig = EmptyObj
    /\ alertMsg = ""
    /\ onSaveArgs = << >>
    /\ sent = << >>

\* the application as App wires it: currentVideoPath starts as null
Init ==
    /\ currentVideoPath = Null
    /\ InitEditorPanel
    /\ InitGeneratorPanel
    /\ InitCloudPanel
    /\ InitStep

\* a panel mounted with a videoPath prop: null, or a video the parent holds
InitWithVideo ==
    /\ currentVideoPath \in {Null} \cup VideoPaths
    /\ InitEditorPanel
    /\ InitGeneratorPanel
    /\ InitCloudPanel
    /\ InitStep

\* App with the generator panel in use
Next ==
    \/ \E data \in StyleLists : StylesOk(data)
    \/ StylesFail
    \/ \E text \in Scripts : SetScript(text)
    \/ GenerateButton
    \/ \E r \in RandomSteps : ProgressTick(r)
    \/ \E d \in Descriptors : GenerateOk(d)
    \/ \E m \in ErrorTexts \cup {"Failed to generate video"} : GenerateFail(m)

Spec == Init /\ [][Next]_vars

\* the editor panel in use
NextEditor ==
    \/ \E c \in ControlInputs : SetControl(c[1], c[2], c[3])
    \/ Reset
    \/ Undo
    \/ Redo
    \/ \E k \in PresetKeys : ApplyPreset(k)
    \/ \E i \in 1..MaxFetches : ApplyPresetFound(i)
    \/ \E i \in 1..MaxFetches : ApplyPresetNone(i)
    \/ \E i \in 1..MaxFetches : ApplyPresetFail(i)
    \/ ApplyEditsButton
    \/ \E p \in EditedPaths : SaveEditsOk(p)
    \/ \E m \in ErrorTexts \cup {"Failed to edit video"} : SaveEditsFail(m)

SpecEditor == InitWithVideo /\ [][NextEditor]_vars

\* the configuration builder alone: set and reset
NextBuilder ==
    \/ \E c \in ControlInputs : SetControl(c[1], c[2], c[3])
    \/ Reset

SpecBuilder == InitWithVideo /\ [][NextBuilder]_vars

\* the effect switches beside the controls of one other category, reset,
\* and presets applied over them
NextEffects ==
    \/ \E e \in Effects : \E checked \in BOOLEAN : EffectSwitch(e, checked)
    \/ \E c \in {x \in ControlInputs : x[1] = "resize"} : SetControl(c[1], c[2], c[3])
    \/ Reset
    \/ \E k \in PresetKeys : ApplyPreset(k)
    \/ \E i \in 1..MaxFetches : ApplyPresetFound(i)
    \/ \E i \in 1..MaxFetches : ApplyPresetNone(i)
    \/ \E i \in 1..MaxFetches : ApplyPresetFail(i)

SpecEffects == InitWithVideo /\ [][NextEffects]_vars

\* the cloud panel in use
NextCloud ==
    \/ \E d \in AzureStatuses : StatusOk(d)
    \/ StatusFail
    \/ UploadButton
    \/ \E b \in BlobUrls : UploadOk([blob_url |-> b, status |-> "success"])
    \/ \E m \in ErrorTexts \cup {"Failed to upload to Azure"} : UploadFail(m)
    \/ \E i \in 1..MaxStreams : StreamOk(i)
    \/ \E i \in 1..MaxStreams : StreamFail(i)
    \/ AnalyzeButton
    \/ AnalyzeOk
    \/ \E m \in ErrorTexts \cup {"Failed to analyze video"} : AnalyzeFail(m)
    \/ WorkflowButton
    \/ \E w \in Workflows : WorkflowOk(w)
    \/ \E m \in ErrorTexts \cup {"Workflow failed"} : WorkflowFail(m)

SpecCloud == InitWithVideo /\ [][NextCloud]_vars

\* the steps of the generator panel that issue a request or handle a
\* response, and the input the Generate button reads
GeneratorRequests ==
    \/ \E data \in StyleLists : StylesOk(data)
    \/ StylesFail
    \/ \E text \in Scripts : SetScript(text)
    \/ GenerateButton
    \/ \E d \in Descriptors : GenerateOk(d)
    \/ \E m \in ErrorTexts \cup {"Failed to generate video"} : GenerateFail(m)

\* the steps of the editor panel that issue a request or handle a response
EditorRequests ==
    \/ \E k \in PresetKeys : ApplyPreset(k)
    \/ \E i \in 1..MaxFetches : ApplyPresetFound(i)
    \/ \E i \in 1..MaxFetches : ApplyPresetNone(i)
    \/ \E i \in 1..MaxFetches : ApplyPresetFail(i)
    \/ ApplyEditsButton
    \/ \E p \in EditedPaths : SaveEditsOk(p)
    \/ \E m \in ErrorTexts \cup {"Failed to edit video"} : SaveEditsFail(m)

\* the requests of the three panels under App's Tabs, one panel in use at a
\* time: a panel takes its steps while the other two are as they were mounted
NextRequests ==
    \/ InitEditorPanel /\ InitCloudPanel /\ GeneratorRequests
    \/ InitGeneratorPanel /\ InitCloudPanel /\ EditorRequests
    \/ InitGeneratorPanel /\ InitEditorPanel /\ NextCloud

SpecRequests == InitWithVideo /\ [][NextRequests]_vars

----------------------------------------------------------------------------
(* Properties of the edit-configuration builder, under SpecEditor *)

\* the entry (category, key) of a configuration: <<value>>, or << >> when absent
Entry(cfg, category, key) ==
    IF ObjHas(cfg, category) /\ ObjHas(ObjGet(cfg, category), key)
    THEN <<ObjGet(ObjGet(cfg, category), key)>>
    ELSE << >>

Categories == {"trim", "resize", "fade_in", "fade_out", "effects", "text_overlays", "volume"}
ParamKeys  == {"start", "end", "width", "height", "duration", "list", "factor"}

\* C2: set is idempotent, and commutative across distinct categories: from
\* every reachable configuration, set(a,k,v) twice gives the map set(a,k,v)
\* gives once, and for a # b set(a,k,v);set(b,k2,v2) and set(b,k2,v2);set(a,k,v)
\* give the same map.
C2_SetIdempotentCommutative ==
    \A x \in ControlInputs : \A y \in ControlInputs :
        LET once == updateEditConfig(editConfig, x[1], x[2], x[3])
            xy   == updateEditConfig(once, y[1], y[2], y[3])
            yx   == updateEditConfig(updateEditConfig(editConfig, y[1], y[2], y[3]),
                                     x[1], x[2], x[3])
        IN  /\ AsMap2(updateEditConfig(once, x[1], x[2], x[3])) = AsMap2(once)
            /\ x[1] # y[1] => AsMap2(xy) = AsMap2(yx)

\* two sets of distinct categories have been applied one after the other
C2_Witness ==
    /\ lastOp = "set"
    /\ prevConfig # EmptyObj
    /\ ~ObjHas(prevConfig, lastArgs[1])
    /\ Len(editConfig) = 2

\* C3: once the response of an applyPreset fetch that holds the preset has
\* been handled, editConfig is that preset's config exactly.
C3_ApplyReplaces ==
    lastOp = "applyPresetFound" => editConfig = PresetConfig(lastArgs[1])

\* a preset response was handled over local edits of a category the preset
\* does not have
C3_Witness ==
    /\ lastOp = "applyPresetFound"
    /\ \E c \in ObjKeys(prevConfig) : ~ObjHas(editConfig, c)

\* C4: reset() yields the empty configuration from every reachable state.
C4_ResetEmpties ==
    lastOp = "reset" => editConfig = EmptyObj

\* reset acted on a non-empty configuration, after a preset had been applied
\* and while a submit was outstanding
C4_Witness ==
    /\ lastOp = "reset"
    /\ prevConfig # EmptyObj
    /\ selectedPreset # ""
    /\ isEditing

\* C10: set(category, key, value) stores value as given at (category, key) and
\* leaves every other entry, of this and of every other category, as it was.
C10_SetFrame ==
    lastOp = "set" =>
        /\ Entry(editConfig, lastArgs[1], lastArgs[2]) = <<lastArgs[3]>>
        /\ ObjKeys(editConfig) = ObjKeys(prevConfig) \cup {lastArgs[1]}
        /\ \A c \in Categories : \A k \in ParamKeys :
              <<c, k>> # <<lastArgs[1], lastArgs[2]>> =>
                  Entry(editConfig, c, k) = Entry(prevConfig, c, k)

\* a negative trim start was set on a configuration that held another
\* parameter of trim and another category
C10_Witness ==
    /\ lastOp = "set"
    /\ lastArgs = <<"trim", "start", Num(-3)>>
    /\ Entry(prevConfig, "trim", "end") # << >>
    /\ ObjHas(prevConfig, "resize")

----------------------------------------------------------------------------
(* Properties of submit, under SpecEditor *)

\* set('trim','start',0), set('trim','end',10), set('resize','width',1920),
\* set('resize','height',1080) from the empty configuration
ExampleConfig ==
    updateEditConfig(
        updateEditConfig(
            updateEditConfig(
                updateEditConfig(EmptyObj, "trim", "start", Num(0)),
                "trim", "end", Num(10)),
            "resize", "width", Num(1920)),
        "resize", "height", Num(1080))

\* {"video_path": <path>, "edit_config": {"trim": {"start":0,"end":10},
\*  "resize": {"width":1920,"height":1080}}}
ExampleBody(path) ==
    << <<"video_path", path>>,
       <<"edit_config",
         << <<"trim",   << <<"start", Num(0)>>,    <<"end", Num(10)>> >> >>,
            <<"resize", << <<"width", Num(1920)>>, <<"height", Num(1080)>> >> >> >> >> >>

\* the one request a saveEdits step issued
PostedBody == sent[1][2]

\* C6 as stated: the body's video_path is the current video path and its
\* edit_config is exactly the accumulated configuration.
C6_BodyIsConfigExactly ==
    lastOp = "saveEdits" =>
        /\ Len(sent) = 1
        /\ sent[1][1] = "/api/editor/edit"
        /\ PostedBody[1] = <<"video_path", currentVideoPath>>
        /\ PostedBody[2] = <<"edit_config", editConfig>>

\* C6 (amended): submit() posts to /api/editor/edit a body whose video_path is
\* the current video path and whose edit_config has the categories and
\* parameters of the accumulated configuration in the same order, each with
\* its value, except that a NaN value is sent as null; after the four sets of
\* the example the body is the example's body.
C6_SubmitBody ==
    lastOp = "saveEdits" =>
        /\ Len(sent) = 1
        /\ sent[1][1] = "/api/editor/edit"
        /\ Len(PostedBody) = 2
        /\ PostedBody[1] = <<"video_path", currentVideoPath>>
        /\ PostedBody[2][1] = "edit_config"
        /\ LET posted == PostedBody[2][2]
           IN  /\ Len(posted) = Len(editConfig)
               /\ \A i \in DOMAIN editConfig :
                     /\ posted[i][1] = editConfig[i][1]
                     /\ Len(posted[i][2]) = Len(editConfig[i][2])
                     /\ \A j \in DOMAIN editConfig[i][2] :
                           LET v == editConfig[i][2][j]
                           IN  posted[i][2][j] =
                                   <<v[1], IF v[2] = NaN THEN JsonNull ELSE v[2]>>
        /\ (editConfig = ExampleConfig => PostedBody = ExampleBody(currentVideoPath))

\* the example's configuration was submitted
C6_Witness ==
    /\ lastOp = "saveEdits"
    /\ editConfig = ExampleConfig
    /\ currentVideoPath \in VideoPaths

\* C7: when a submit succeeds, the returned edited_path is passed exactly once
\* to onSave, and App's currentVideoPath is then that edited_path.
C7_SuccessForwardsPath ==
    lastOp = "saveEditsOk" =>
        /\ onSaveArgs = <<lastArgs[1]>>
        /\ currentVideoPath = lastArgs[1]

\* a submit succeeded and the current video is now the edited one
C7_Witness ==
    /\ lastOp = "saveEditsOk"
    /\ currentVideoPath \in EditedPaths
    /\ Len(onSaveArgs) = 1

\* C8: when a submit fails, the error message is alerted, onSave is not
\* invoked, isEditing is false again, and neither the step that issues the
\* request nor the step that handles the failure changes editConfig,
\* selectedPreset or currentVideoPath.
C8_FailedSubmit ==
    [][/\ lastOp' = "saveEditsFail" =>
             /\ alertMsg' = "Error editing video: " \o lastArgs'[1]
             /\ onSaveArgs' = << >>
             /\ ~isEditing'
             /\ UNCHANGED <<editConfig, selectedPreset, currentVideoPath>>
       /\ lastOp' = "saveEdits" =>
             UNCHANGED <<editConfig, selectedPreset, currentVideoPath>>]_vars

\* a submit failed with the default message on a configuration built from a
\* preset and local edits
C8_Witness ==
    /\ lastOp = "saveEditsFail"
    /\ alertMsg = "Error editing video: Failed to edit video"
    /\ selectedPreset # ""
    /\ Len(editConfig) = 2
    /\ ~isEditing

----------------------------------------------------------------------------
(* Properties of the generator panel, under Spec *)

\* empty or whitespace only
IsBlank(text) == \A i \in DOMAIN text : text[i] = " "

\* C1: a press of Generate while the script is empty or only whitespace
\* issues no request.
C1_BlankScriptSendsNothing ==
    (IsBlank(script) /\ lastOp \in {"generateVideo", "generateNoScript", "generateDisabled"})
        => sent = << >>

\* Generate was pressed on a script of whitespace, with nothing in flight
C1_Witness ==
    /\ lastOp = "generateDisabled"
    /\ script # << >>
    /\ IsBlank(script)
    /\ ~isGenerating

\* C9 as stated: after a generation request succeeds with descriptor d, App's
\* currentVideoPath is d.video_path (so the editor's and the cloud panel's
\* videoPath are non-null).
C9_GeneratedVideoBecomesCurrent ==
    lastOp = "generateOk" =>
        /\ currentVideoPath = lastArgs[1].video_path
        /\ currentVideoPath # Null

----------------------------------------------------------------------------
(* Properties of the cloud panel, under SpecCloud *)

\* C5: neither the step that issues an upload nor the step that handles its
\* failure changes streamingInfo, videoAnalysis or uploadStatus.
C5_FailedUploadFrame ==
    [][lastOp' \in {"uploadToAzure", "uploadFail"} =>
          UNCHANGED <<streamingInfo, videoAnalysis, uploadStatus>>]_vars

\* an upload failed while the results of an earlier upload, its streaming
\* endpoints and an analysis were held
C5_Witness ==
    /\ lastOp = "uploadFail"
    /\ uploadStatus # << >>
    /\ streamingInfo # << >>
    /\ videoAnalysis # << >>

----------------------------------------------------------------------------
(* Properties of blocked and failed actions *)

\* C11: an action attempted with an empty required input issues no request
\* and changes no state variable of its panel: a press of Apply Edits, Upload
\* or Run Complete Workflow while there is no video path, and a press of
\* Analyze while uploadStatus holds no blob_url.
C11_EmptyInputBlocked ==
    [][/\ (currentVideoPath = Null /\
            lastOp' \in {"applyEditsDisabled", "saveEditsNoVideo", "saveEdits"})
              => (sent' = << >> /\ UNCHANGED <<editorVars, appVars>>)
       /\ (currentVideoPath = Null /\
            lastOp' \in {"uploadDisabled", "uploadNoVideo", "uploadToAzure",
                         "workflowDisabled", "workflowNoVideo", "runCompleteWorkflow"})
              => (sent' = << >> /\ UNCHANGED <<cloudVars, appVars>>)
       /\ (~HasBlobUrl /\ lastOp' \in {"analyzeDisabled", "analyzeNoUpload", "analyzeVideo"})
              => (sent' = << >> /\ UNCHANGED <<cloudVars, appVars>>)]_vars

\* Upload was pressed with no video path, the storage being configured and
\* no upload outstanding
C11_Witness ==
    /\ lastOp = "uploadDisabled"
    /\ currentVideoPath = Null
    /\ Configured
    /\ ~isUploading

\* C12 as stated: once the failure of a generation request has been handled,
\* generatedVideo, progress and isGenerating have the values they had before
\* the submit.
C12_FailedGenerationRestores ==
    lastOp = "generateFail" => <<generatedVideo, progress, isGenerating>> = beforeSubmit

\* the steps that handle the failure of a remote call: styles list,
\* generate, presets fetch, edit, Azure status, upload, streaming-endpoint
\* creation, analyze and workflow
FailureSteps ==
    {"stylesFail", "generateFail", "applyPresetFail", "saveEditsFail", "statusFail",
     "uploadFail", "streamFail", "analyzeFail", "workflowFail"}

\* C13 as stated: every remote call that fails is surfaced as a user-facing
\* alert, for every call the client makes.
C13_EveryFailureAlerts ==
    lastOp \in FailureSteps => alertMsg # ""

----------------------------------------------------------------------------
(* Further properties of the editor panel, under SpecEditor *)

----------------------------------------------------------------------------
(* Requests in flight, under SpecRequests *)

\* C16 as stated: in each panel at most one network request is in flight at
\* any time.
C16_OneRequestPerPanel ==
    /\ stylesInFlight + genInFlight <= 1
    /\ Len(presetFetches) + editInFlight <= 1
    /\ statusInFlight + uploadInFlight + Len(streamFetches) + Len(analyzeFetches)
           + workflowInFlight <= 1

\* C16 (amended): in each panel at most one request of each kind other than
\* preset fetches and streaming-endpoint requests is in flight at any time:
\* one styles-list fetch and one generate request in the generator, one edit
\* request in the editor, one status check, one upload-or-workflow request
\* and one analyze request in the cloud panel.
C16_OneRequestPerKind ==
    /\ stylesInFlight <= 1 /\ genInFlight <= 1
    /\ editInFlight <= 1
    /\ statusInFlight <= 1
    /\ uploadInFlight + workflowInFlight <= 1
    /\ Len(analyzeFetches) <= 1

\* in the cloud panel an upload, an analysis and a streaming-endpoint
\* request are in flight together
C16_Witness ==
    /\ uploadInFlight = 1
    /\ Len(analyzeFetches) = 1
    /\ Len(streamFetches) = 1

\* C17: at most one generate request, at most one edit request, at most one
\* upload-or-workflow request and at most one analyze request is in flight
\* at any time, the control that triggers it being disabled by its busy flag
\* while one is.
C17_NoDuplicateSubmission ==
    /\ genInFlight <= 1 /\ (genInFlight = 1 => isGenerating)
    /\ editInFlight <= 1 /\ (editInFlight = 1 => isEditing)
    /\ uploadInFlight + workflowInFlight <= 1
    /\ (uploadInFlight + workflowInFlight = 1 => isUploading)
    /\ Len(analyzeFetches) <= 1 /\ (Len(analyzeFetches) = 1 => isAnalyzing)

\* Upload was pressed while a workflow request was outstanding
C17_Witness ==
    /\ lastOp = "uploadDisabled"
    /\ workflowInFlight = 1
    /\ currentVideoPath # Null
    /\ Configured

----------------------------------------------------------------------------
(* The simulated progress, under Spec *)

\* C18 as stated: while a generation request is outstanding (isGenerating
\* true and its response not yet handled), progress never exceeds 90.
C18_ProgressCappedAt90 ==
    (isGenerating /\ genInFlight > 0) => progress <= 90

----------------------------------------------------------------------------
(* Further properties of the cloud panel, under SpecCloud *)

\* the step that produced this state issued a request to url
SentTo(url) == \E i \in DOMAIN sent : sent[i][1] = url

\* C20: an analyze request is issued only in a state where uploadStatus
\* holds a blob_url, and carries it as video_url; a streaming-endpoint
\* request is issued only by the step that handles the OK response of an
\* upload request, and carries that response's blob_url as video_url.
C20_StepsGated ==
    /\ SentTo("/api/azure/analyze") =>
          /\ lastOp = "analyzeVideo"
          /\ HasBlobUrl
          /\ sent = << <<"/api/azure/analyze",
                         << <<"video_url", uploadStatus[1].blob_url>> >> >> >>
    /\ SentTo("/api/azure/stream") =>
          /\ lastOp = "uploadOk"
          /\ sent = << <<"/api/azure/stream",
                         << <<"video_url", lastArgs[1].blob_url>> >> >> >>
    /\ lastOp = "uploadOk" => SentTo("/api/azure/stream")

\* a second upload succeeded with another blob while the streaming request
\* of the first was outstanding
C20_Witness ==
    /\ lastOp = "uploadOk"
    /\ Len(streamFetches) = 2
    /\ streamFetches[1] # streamFetches[2]
    /\ SentTo("/api/azure/stream")

\* C21: a failing cloud step halts the sequence and keeps the results of the
\* steps completed before it: the step that handles a failed upload issues
\* no streaming request, the step that handles a failed streaming request
\* leaves uploadStatus unchanged, a failed analyze request uploadStatus and
\* streamingInfo, a failed workflow request uploadStatus, streamingInfo and
\* videoAnalysis; none of them issues a request.
C21_FailureHaltsAndKeeps ==
    [][/\ lastOp' = "uploadFail" => (sent' = << >> /\ UNCHANGED streamFetches)
       /\ lastOp' = "streamFail" => (sent' = << >> /\ UNCHANGED uploadStatus)
       /\ lastOp' = "analyzeFail" =>
             (sent' = << >> /\ UNCHANGED <<uploadStatus, streamingInfo>>)
       /\ lastOp' = "workflowFail" =>
             (sent' = << >> /\ UNCHANGED <<uploadStatus, streamingInfo, videoAnalysis>>)]_vars

\* a streaming request failed while the upload it followed, the streaming
\* endpoints of an earlier upload and an analysis were held
C21_Witness ==
    /\ lastOp = "streamFail"
    /\ uploadStatus # << >>
    /\ uploadStatus[1].blob_url = lastArgs[1]
    /\ streamingInfo # << >>
    /\ streamingInfo[1].video_url # lastArgs[1]
    /\ videoAnalysis # << >>

----------------------------------------------------------------------------
(* The busy flags, under SpecRequests *)

\* C22: each busy flag is true exactly while a request of its action is in
\* flight (isUploading is shared by upload and workflow): set by the step
\* that issues the request, cleared by the step that handles its response,
\* on success and on failure alike.
C22_BusyExactlyWhileInFlight ==
    /\ isGenerating <=> genInFlight > 0
    /\ isEditing <=> editInFlight > 0
    /\ isUploading <=> uploadInFlight + workflowInFlight > 0
    /\ isAnalyzing <=> Len(analyzeFetches) > 0

\* a workflow request failed while an analyze request was still in flight
C22_Witness ==
    /\ lastOp = "workflowFail"
    /\ ~isUploading
    /\ isAnalyzing
    /\ Len(analyzeFetches) = 1

----------------------------------------------------------------------------
(* Overlapping preset fetches, under SpecEditor *)

\* C23 as stated: when two apply(preset) fetches are outstanding at the same
\* time, after both responses have been handled editConfig and
\* selectedPreset are those of the preset requested last, whatever the order
\* of the responses.  (The response handled first was that of fetch
\* lastArgs[2] of the two, for preset lastArgs[1]; the other fetch is the one
\* still in presetFetches.)
C23_LastRequestedWins ==
    [][(/\ lastOp = "applyPresetFound"
        /\ Len(presetFetches) = 1
        /\ lastOp' = "applyPresetFound"
        /\ presetFetches' = << >>)
          => LET requestedLast == IF lastArgs[2] = 2 THEN lastArgs[1] ELSE presetFetches[1]
             IN  /\ selectedPreset' = requestedLast
                 /\ editConfig' = PresetConfig(requestedLast)]_vars

----------------------------------------------------------------------------
(* Overlapping uploads, under SpecCloud *)

\* C24 as stated: whenever streamingInfo is non-null and no streaming request
\* is in flight, streamingInfo is the streaming result for the blob_url
\* currently held in uploadStatus.
C24_StreamingMatchesUpload ==
    (streamingInfo # << >> /\ streamFetches = << >>) =>
        /\ HasBlobUrl
        /\ streamingInfo[1] = StreamingOf(uploadStatus[1].blob_url)

----------------------------------------------------------------------------
(* Further properties of the simulated progress, under Spec *)

\* C25: progress stays within 0..100 in every reachable state of the
\* generator panel.
C25_ProgressInRange ==
    progress \in 0..100

\* a timer tick took progress past 90, to the largest value a tick gives
C25_Witness ==
    /\ lastOp = "progressTick"
    /\ isGenerating
    /\ progress = 96

\* C26: once the response to a generation request has been handled (success
\* or failure) the progress timer is stopped: while no request is
\* outstanding no timer is active and only a submit changes progress; and at
\* most one progress timer is active at any time.
C26_TimerStoppedAfterResponse ==
    [][/\ timers' <= 1
       /\ ~isGenerating' => timers' = 0
       /\ (~isGenerating /\ lastOp' # "generateVideo") => progress' = progress]_vars

\* a failure was handled while the timer was running, part of the way up
C26_Witness ==
    /\ lastOp = "generateFail"
    /\ timers = 0
    /\ progress \in 1..89

----------------------------------------------------------------------------
(* Uploads and the Azure status, under SpecCloud *)

\* C27: an upload or workflow request is issued only from a state where the
\* Azure status has been fetched and reports configured = true, a video path
\* is present and isUploading is false; the status is fetched on mount only,
\* and once that fetch has failed the status stays null and no upload or
\* workflow request is issued.
C27_UploadNeedsConfiguredStatus ==
    [][/\ lastOp' \in {"uploadToAzure", "runCompleteWorkflow"} =>
             (Configured /\ currentVideoPath # Null /\ ~isUploading)
       /\ (SentTo("/api/azure/upload") \/ SentTo("/api/azure/workflow"))' =>
             lastOp' \in {"uploadToAzure", "runCompleteWorkflow"}
       /\ statusInFlight' <= statusInFlight
       /\ (azureStatus = << >> /\ statusInFlight = 0) =>
             (azureStatus' = << >> /\ sent' = << >>)]_vars

\* Upload was pressed with a video present after the status fetch had failed
C27_Witness ==
    /\ lastOp = "uploadDisabled"
    /\ azureStatus = << >>
    /\ statusInFlight = 0
    /\ currentVideoPath # Null

----------------------------------------------------------------------------
(* The effect switches, under SpecEffects *)

\* C28: turning an effect switch on sets effects.list to the one-element
\* list holding only that effect and leaves every other entry as it was;
\* turning a switch off leaves the edit configuration unchanged; effects.list
\* never holds more than one effect; and an effects.list that is held is
\* removed only by reset or by an applied preset.
C28_EffectSwitches ==
    [][/\ (lastOp' = "effectSwitch" /\ lastArgs'[2]) =>
             /\ Entry(editConfig', "effects", "list") = <<List(<<lastArgs'[1]>>)>>
             /\ ObjKeys(editConfig') = ObjKeys(editConfig) \cup {"effects"}
             /\ \A c \in ObjKeys(editConfig) \ {"effects"} :
                   ObjGet(editConfig', c) = ObjGet(editConfig, c)
       /\ (lastOp' = "effectSwitch" /\ ~lastArgs'[2]) => editConfig' = editConfig
       /\ Entry(editConfig', "effects", "list") # << >> =>
             Len(Entry(editConfig', "effects", "list")[1].l) <= 1
       /\ (/\ Entry(editConfig, "effects", "list") # << >>
           /\ Entry(editConfig', "effects", "list") = << >>)
             => lastOp' \in {"reset", "applyPresetFound"}]_vars

\* a switch was turned on while the effect of another switch and an entry of
\* another category were held
C28_Witness ==
    /\ lastOp = "effectSwitch"
    /\ lastArgs = <<"speed_up", TRUE>>
    /\ Entry(prevConfig, "effects", "list") = <<List(<<"black_and_white">>)>>
    /\ ObjHas(prevConfig, "resize")
    /\ Entry(editConfig, "effects", "list") = <<List(<<"speed_up">>)>>

----------------------------------------------------------------------------
(* The selected preset and the submitted configuration, under SpecEditor *)

\* C29: set and reset never change selectedPreset, and only the step that
\* handles a preset response holding the preset changes it (to that preset's
\* key).
C29_OnlyApplyChangesPreset ==
    [][/\ lastOp' \in {"set", "reset"} => selectedPreset' = selectedPreset
       /\ selectedPreset' # selectedPreset =>
             (lastOp' = "applyPresetFound" /\ selectedPreset' = lastArgs'[1])]_vars

\* reset acted on an applied preset: selectedPreset still names it although
\* the configuration is empty
C29_Witness ==
    /\ lastOp = "reset"
    /\ selectedPreset = "cinematic"
    /\ prevConfig = PresetConfig("cinematic")
    /\ editConfig = EmptyObj

\* C30: the step that handles a successful submit leaves editConfig and
\* selectedPreset unchanged, and a submit right after it posts the body of
\* that same configuration with the returned edited path as video_path.
C30_SuccessKeepsConfig ==
    [][/\ lastOp' = "saveEditsOk" => UNCHANGED <<editConfig, selectedPreset>>
       /\ (lastOp = "saveEditsOk" /\ lastOp' = "saveEdits") =>
             /\ UNCHANGED <<editConfig, selectedPreset>>
             /\ sent' = << <<"/api/editor/edit", EditBody(lastArgs[1], editConfig)>> >>]_vars

\* a second submit right after a successful one, of a configuration built
\* from a preset and a local edit
C30_Witness ==
    /\ lastOp = "saveEdits"
    /\ currentVideoPath \in EditedPaths
    /\ prevConfig = editConfig
    /\ Len(editConfig) = 2
    /\ selectedPreset # ""
    /\ PostedBody[1] = <<"video_path", "/videos/v1_edited.mp4">>

====
